---- MODULE Spec2Model ----
(***************************************************************************)
(* Model of src/src/crypto/EncryptionSetup.js: EncryptionSetupBuilder,     *)
(* AccountDataClientAdapter and EncryptionSetupOperation, run on a         *)
(* JavaScript event loop (synchronous steps, a microtask queue, network    *)
(* completions as separate steps).                                         *)
(***************************************************************************)
EXTENDS Integers, Sequences, FiniteSets, TLC

\* ---------------------------------------------------------------- bounds
MaxWrites == 3
MaxOps == 1
MaxApplies == 2
MaxReads == 2

\* ---------------------------------------------------------------- values
\* Account-data types written by the bootstrap algorithms.
Types == {"m.foo", "m.bar", "m.baz"}
\* Content values handed to setAccountData: 0 is a falsy JavaScript value
\* (0, "", false, null), 1 a truthy one (an object).
Contents == {0, 1}
\* Types that may have a pre-existing event, and the content of such events.
ExistingTypes == {"m.foo"}
ExistingContents == {2}
\* Observers of the "accountData" event.
Observers == {"o1", "o2"}

\* The cross-signing key types, private key bytes (truthy objects), and the
\* expected public keys handed to the getters; key k has public key k.
CrossTypes == {"master", "self_signing", "user_signing"}
Keys == {1, 2}
Pubkeys == {1, 2}
\* Secret-storage key ids and the secret names handed to getSecretStorageKey.
KeyIds == {"k1", "k2", "k3"}
SecretNames == {"m.cross_signing.master", "m.megolm_backup.v1"}

\* JavaScript null (getAccountData's last return).
Null == -1
\* JavaScript undefined (Map.prototype.get of a missing key).
Undefined == -2

\* JavaScript truthiness of the values above: 0, null, undefined are falsy.
Truthy(v) == v /= 0 /\ v /= Null /\ v /= Undefined

\* new MatrixEvent({type, content}) and MatrixEvent.getContent().
MatrixEvent(type, content) == [type |-> type, content |-> content]
getContent(event) == event.content

\* ------------------------------------------------------ JavaScript Map
\* A Map is the sequence of its <<key, value>> entries in insertion order.
NewMap == << >>
MapHas(m, key) == \E i \in 1..Len(m) : m[i][1] = key
MapGet(m, key) ==
    IF MapHas(m, key)
    THEN m[CHOOSE i \in 1..Len(m) : m[i][1] = key][2]
    ELSE Undefined
\* Map.prototype.set: a new key is appended, an old key keeps its position.
MapSet(m, key, value) ==
    IF MapHas(m, key)
    THEN [i \in 1..Len(m) |-> IF m[i][1] = key THEN <<key, value>> ELSE m[i]]
    ELSE Append(m, <<key, value>>)
MapKeys(m) == [i \in 1..Len(m) |-> m[i][1]]

\* The values of the builder's capture fields: null, or an object the caller
\* supplied, seen as its own entries.
NullValue == [kind |-> "null", entries |-> << >>]
ObjectValue(entries) == [kind |-> "object", entries |-> entries]
CaptureObjects == { ObjectValue(<< <<"master", 0>> >>) }
CaptureFields == { "_crossSigningKeys", "_keyBackupInfo", "_keySignatures" }

\* ---------------------------------------------------------------- state
VARIABLES
    existingValues,  \* AccountDataClientAdapter._existingValues: type -> MatrixEvent
    values,          \* AccountDataClientAdapter._values: the pending Map
    listeners,       \* observers registered for "accountData"
    received,        \* per observer, the events its listener was called with
    microtasks,      \* the microtask queue: pending .then() callbacks
    running,         \* TRUE while a synchronous step of the caller runs
    ops,             \* the EncryptionSetupOperations built so far
    applies,         \* the invocations of EncryptionSetupOperation.apply
    remote,          \* the server's account data: type -> content
    privateKeys,     \* CrossSigningCallbacks.privateKeys: type -> key
    ssssKeys,        \* SSSSCryptoCallbacks._privateKeys: key id -> key
    acks,            \* per setAccountData call, the state of the promise it returned
    reads,           \* the promises returned by getAccountDataFromServer
    crossSigningKeys, \* EncryptionSetupBuilder._crossSigningKeys
    keyBackupInfo,   \* EncryptionSetupBuilder._keyBackupInfo
    keySignatures,   \* EncryptionSetupBuilder._keySignatures
    heap,            \* the Map objects made by separately constructed builders
    builders,        \* per constructed builder, the Maps its three stores hold
    bops,            \* the operations those builders built
    bapplies,        \* the invocations of apply() on those operations
    \* history variables
    writeLog,        \* every setAccountData call, <<type, content>>, in call order
    emitted,         \* every event passed to emit(), in order
    subFrom,         \* per observer, Len(emitted) when it subscribed
    subAt,           \* per observer, Len(writeLog) when it subscribed
    pendingAtBuild,  \* per operation, the pending entries when it was built
    lastKey,         \* per cross-signing type, the key written last (either shape)
    lastSave,        \* the entries of the latest saveCrossSigningKeys, until the next store
    lastAdded,       \* per secret-storage key id, the key added last
    keysAtBuild      \* per operation, the cross-signing key per type when it was built

vars == << existingValues, values, listeners, received, microtasks, running,
           ops, applies, remote, writeLog, emitted,
           subFrom, subAt, pendingAtBuild,
           privateKeys, ssssKeys, lastKey, lastSave, lastAdded,
           acks, reads, crossSigningKeys, keyBackupInfo, keySignatures, keysAtBuild,
           heap, builders, bops, bapplies >>

adapterVars == << values, microtasks, writeLog, acks >>
observerVars == << listeners, received, emitted, subFrom, subAt >>
replayVars == << ops, applies, remote, pendingAtBuild, keysAtBuild >>
keyVars == << privateKeys, ssssKeys, lastKey, lastSave, lastAdded >>
captureVars == << crossSigningKeys, keyBackupInfo, keySignatures >>
isolationVars == << heap, builders, bops, bapplies >>

\* The one Map object the adapter creates; an operation holds a reference.
ValuesRef == "accountDataClientAdapter._values"
Deref(ref) == IF ref = ValuesRef THEN values ELSE NewMap

\* ------------------------------------------------- AccountDataClientAdapter
\* this._existingValues[type]
HasExisting(type) == type \in DOMAIN existingValues

\* Faulty variant: the existing entries are never consulted.
getAccountDataNoExisting(type) ==
    LET modifiedValue == MapGet(values, type) IN
    IF Truthy(modifiedValue) THEN modifiedValue ELSE Null
\* getAccountData(type): the pending value if truthy, else the existing content.
getAccountData(type) ==
    LET modifiedValue == MapGet(values, type) IN
    IF Truthy(modifiedValue)
    THEN modifiedValue
    ELSE IF HasExisting(type)
         THEN getContent(existingValues[type])
         ELSE Null

\* Faulty variant: the server's copy is read, the pending values are not.
getAccountDataFromServerExisting(type) ==
    /\ running
    /\ Len(reads) < MaxReads
    /\ reads' = Append(reads, [type |-> type,
                               value |-> IF HasExisting(type)
                                         THEN getContent(existingValues[type])
                                         ELSE Null,
                               at |-> Len(writeLog)])
    /\ UNCHANGED << existingValues, adapterVars, observerVars, replayVars, running,
                    keyVars, captureVars, isolationVars >>
\* getAccountDataFromServer(type): a promise already resolved with what
\* getAccountData(type) returns now; at is history, the writes made so far.
getAccountDataFromServer(type) ==
    /\ running
    /\ Len(reads) < MaxReads
    /\ reads' = Append(reads, [type |-> type, value |-> getAccountData(type),
                               at |-> Len(writeLog)])
    /\ UNCHANGED << existingValues, adapterVars, observerVars, replayVars, running,
                    keyVars, captureVars, isolationVars >>

\* Faulty variant: the newest callback runs first.
ThenQueueLifo(queue, job) == << job >> \o queue
\* Promise.resolve().then(cb): cb is appended to the microtask queue.
ThenQueue(queue, job) == Append(queue, job)

\* EventEmitter.emit: every registered listener is called with the event.
emit(rcv, event) ==
    [o \in Observers |-> IF o \in listeners THEN Append(rcv[o], event) ELSE rcv[o]]

\* ----------------------------------------------------------------- Init
Init ==
    /\ existingValues \in UNION { [S -> { MatrixEvent(t, c) : t \in Types, c \in ExistingContents }]
                                  : S \in SUBSET ExistingTypes }
    /\ \A t \in DOMAIN existingValues : existingValues[t].type = t
    /\ values = NewMap
    /\ listeners = {}
    /\ received = [o \in Observers |-> << >>]
    /\ microtasks = << >>
    /\ running = FALSE
    /\ ops = << >>
    /\ applies = << >>
    /\ remote = [t \in Types |-> Undefined]
    /\ writeLog = << >>
    /\ emitted = << >>
    /\ subFrom = [o \in Observers |-> Undefined]
    /\ subAt = [o \in Observers |-> Undefined]
    /\ pendingAtBuild = << >>
    /\ privateKeys = NewMap
    /\ ssssKeys = NewMap
    /\ lastKey = [t \in CrossTypes |-> Undefined]
    /\ lastSave = << >>
    /\ lastAdded = [k \in KeyIds |-> Undefined]
    /\ acks = << >>
    /\ reads = << >>
    /\ crossSigningKeys = NullValue
    /\ keyBackupInfo = NullValue
    /\ keySignatures = NullValue
    /\ keysAtBuild = << >>
    /\ heap = << >>
    /\ builders = << >>
    /\ bops = << >>
    /\ bapplies = << >>

\* ------------------------------------------------------------ event loop
\* A new independent scheduling step of the caller begins: only when the
\* previous step has ended and the microtask queue has been drained.
BeginStep ==
    /\ ~running
    /\ microtasks = << >>
    /\ running' = TRUE
    /\ UNCHANGED << existingValues, adapterVars, observerVars, replayVars, keyVars, captureVars, reads, isolationVars >>

EndStep ==
    /\ running
    /\ running' = FALSE
    /\ UNCHANGED << existingValues, adapterVars, observerVars, replayVars, keyVars, captureVars, reads, isolationVars >>

\* adapter.on("accountData", listener)
Subscribe(o) ==
    /\ running
    /\ o \notin listeners
    /\ listeners' = listeners \cup {o}
    /\ subFrom' = [subFrom EXCEPT ![o] = Len(emitted)]
    /\ subAt' = [subAt EXCEPT ![o] = Len(writeLog)]
    /\ UNCHANGED << existingValues, adapterVars, received, emitted, running,
                    replayVars, keyVars, captureVars, reads, isolationVars >>

\* Faulty variant: the event is emitted inside setAccountData itself.
setAccountDataSync(type, content) ==
    /\ running
    /\ Len(writeLog) < MaxWrites
    /\ values' = MapSet(values, type, content)
    /\ received' = emit(received, MatrixEvent(type, content))
    /\ emitted' = Append(emitted, MatrixEvent(type, content))
    /\ writeLog' = Append(writeLog, <<type, content>>)
    /\ acks' = Append(acks, "resolved")
    /\ UNCHANGED << existingValues, microtasks, listeners, subFrom, subAt, running,
                    replayVars, keyVars, captureVars, reads, isolationVars >>
\* Faulty variant: the returned promise is already resolved.
setAccountDataResolved(type, content) ==
    /\ running
    /\ Len(writeLog) < MaxWrites
    /\ values' = MapSet(values, type, content)
    /\ microtasks' = ThenQueue(microtasks, [type |-> type, content |-> content,
                                            promise |-> Len(acks) + 1])
    /\ writeLog' = Append(writeLog, <<type, content>>)
    /\ acks' = Append(acks, "resolved")
    /\ UNCHANGED << existingValues, observerVars, running, replayVars, keyVars, captureVars, reads, isolationVars >>
\* EncryptionSetupBuilder.setAccountData -> AccountDataClientAdapter.setAccountData:
\* the promise returned is the one .then() made, pending until the callback ran.
setAccountData(type, content) ==
    /\ running
    /\ Len(writeLog) < MaxWrites
    /\ values' = MapSet(values, type, content)
    /\ microtasks' = ThenQueue(microtasks, [type |-> type, content |-> content,
                                            promise |-> Len(acks) + 1])
    /\ writeLog' = Append(writeLog, <<type, content>>)
    /\ acks' = Append(acks, "pending")
    /\ UNCHANGED << existingValues, observerVars, running, replayVars, keyVars, captureVars, reads, isolationVars >>

\* The .then() callback of setAccountData runs as a microtask; when it has
\* returned, the promise .then() made is resolved.
RunMicrotask ==
    /\ ~running
    /\ microtasks /= << >>
    /\ LET job == Head(microtasks)
           event == MatrixEvent(job.type, job.content)
       IN /\ received' = emit(received, event)
          /\ emitted' = Append(emitted, event)
    /\ microtasks' = Tail(microtasks)
    /\ acks' = [i \in 1..Len(acks) |->
                   IF i = Head(microtasks).promise THEN "resolved" ELSE acks[i]]
    /\ UNCHANGED << existingValues, values, writeLog, listeners, subFrom,
                    subAt, running, replayVars, keyVars, captureVars, reads, isolationVars >>

\* ------------------------------------------------ EncryptionSetupBuilder
\* A caller assigns one of the builder's capture fields.
setCapture(field, value) ==
    /\ running
    /\ crossSigningKeys' = IF field = "_crossSigningKeys" THEN value ELSE crossSigningKeys
    /\ keyBackupInfo' = IF field = "_keyBackupInfo" THEN value ELSE keyBackupInfo
    /\ keySignatures' = IF field = "_keySignatures" THEN value ELSE keySignatures
    /\ UNCHANGED << existingValues, adapterVars, observerVars, replayVars, running,
                    keyVars, reads, isolationVars >>

\* Faulty variant: the private-key cache is what the operation captures.
EncryptionSetupOperationWithCache(accountData, crossSigningKeysArg, keyBackupInfoArg, keySignaturesArg) ==
    [accountData |-> accountData, crossSigningKeys |-> ObjectValue(privateKeys),
     keyBackupInfo |-> keyBackupInfoArg, keySignatures |-> keySignaturesArg]
\* new EncryptionSetupOperation(accountData, crossSigningKeys, keyBackupInfo, keySignatures)
EncryptionSetupOperation(accountData, crossSigningKeysArg, keyBackupInfoArg, keySignaturesArg) ==
    [accountData |-> accountData, crossSigningKeys |-> crossSigningKeysArg,
     keyBackupInfo |-> keyBackupInfoArg, keySignatures |-> keySignaturesArg]

\* buildOperation: the operation is handed the adapter's Map itself, and the
\* values of the three capture fields.
buildOperation ==
    /\ running
    /\ Len(ops) < MaxOps
    /\ ops' = Append(ops, EncryptionSetupOperation(ValuesRef, crossSigningKeys,
                                                   keyBackupInfo, keySignatures))
    /\ pendingAtBuild' = Append(pendingAtBuild, values)
    /\ keysAtBuild' = Append(keysAtBuild, lastKey)
    /\ UNCHANGED << existingValues, adapterVars, observerVars, running,
                    applies, remote, keyVars, captureVars, reads, isolationVars >>

\* ---------------------------------------------- EncryptionSetupOperation
\* An invocation of apply(): op is the operation, pos the Map iterator's
\* position (entries consumed), calls the baseApis.setAccountData calls it
\* made, each "pending" (in flight), "ok" or "failed"; after is history: the
\* earlier invocations that had already settled when this one started.
\* Faulty variant: the cross-signing keys are uploaded as well.
CallWithUpload(entry) ==
    [method |-> "uploadDeviceSigningKeys", type |-> entry[1], content |-> entry[2],
     result |-> "pending"]
\* baseApis.setAccountData(type, content), the one call apply() makes.
Call(entry) ==
    [method |-> "setAccountData", type |-> entry[1], content |-> entry[2],
     result |-> "pending"]

\* Faulty variant: an invocation resumes after the entries already sent.
FirstPosResume(op) ==
    Cardinality({ <<k, j>> \in (1..Len(applies)) \X (1..MaxWrites) :
                    /\ applies[k].op = op
                    /\ j \in 1..Len(applies[k].calls)
                    /\ applies[k].calls[j].result = "ok" })
\* Where the for-of loop of a fresh invocation starts: a new iterator.
FirstPos(op) == 0

\* Faulty variant: the calls for all remaining entries start at once.
AdvanceNoAwait(a, entries) ==
    [a EXCEPT !.pos = Len(entries),
              !.calls = a.calls \o [j \in 1..(Len(entries) - a.pos) |-> Call(entries[a.pos + j])],
              !.status = IF a.pos < Len(entries) THEN "awaiting" ELSE "resolved"]
\* One turn of the for-of loop up to its await: the iterator yields the next
\* entry of the live Map and the call for it starts, or the loop ends.
Advance(a, entries) ==
    IF a.pos < Len(entries)
    THEN [a EXCEPT !.pos = a.pos + 1,
                   !.calls = Append(a.calls, Call(entries[a.pos + 1]))]
    ELSE [a EXCEPT !.status = "resolved"]

\* The awaited call has settled: the result is recorded, and the loop goes on
\* after a success or apply() rejects after a failure.
SetResult(a, result) ==
    [a EXCEPT !.calls = [a.calls EXCEPT ![Len(a.calls)] = [@ EXCEPT !.result = result]]]
\* Faulty variant: a failed call is swallowed and the loop goes on.
SettleIgnoreFailure(a, ok, entries) ==
    Advance(SetResult(a, IF ok THEN "ok" ELSE "failed"), entries)
Settle(a, ok, entries) ==
    IF ok
    THEN Advance(SetResult(a, "ok"), entries)
    ELSE [SetResult(a, "failed") EXCEPT !.status = "rejected"]

\* apply(crypto), up to its first await.
apply(op) ==
    /\ running
    /\ op \in 1..Len(ops)
    /\ Len(applies) < MaxApplies
    /\ applies' = Append(applies,
                         Advance([op |-> op, pos |-> FirstPos(op), status |-> "awaiting",
                                  calls |-> << >>,
                                  after |-> { k \in 1..Len(applies) :
                                                applies[k].status /= "awaiting" }],
                                 Deref(ops[op].accountData)))
    /\ UNCHANGED << existingValues, adapterVars, observerVars, running,
                    ops, remote, pendingAtBuild, keysAtBuild, keyVars, captureVars, reads, isolationVars >>

\* The network client settles the call apply() is awaiting, in a step of its
\* own, and apply() resumes.
NetworkComplete(k, ok) ==
    /\ ~running
    /\ microtasks = << >>
    /\ k \in 1..Len(applies)
    /\ applies[k].status = "awaiting"
    /\ LET a == applies[k]
           call == a.calls[Len(a.calls)]
       IN /\ applies' = [applies EXCEPT ![k] = Settle(a, ok, Deref(ops[a.op].accountData))]
          /\ remote' = IF ok THEN [remote EXCEPT ![call.type] = call.content] ELSE remote
    /\ UNCHANGED << existingValues, adapterVars, observerVars, running,
                    ops, pendingAtBuild, keysAtBuild, keyVars, captureVars, reads, isolationVars >>

\* ------------------------------------------------- CrossSigningCallbacks
\* The value the promise returned by getCrossSigningKey resolves with: read
\* from the Map when the getter is called; the expected public key is unused.
getCrossSigningKey(type, expectedPubkey) == MapGet(privateKeys, type)

\* Faulty variant: the cached key is checked against the expected public key.
getCrossSigningKeyCacheChecked(type, expectedPublicKey) ==
    IF MapGet(privateKeys, type) = expectedPublicKey
    THEN MapGet(privateKeys, type)
    ELSE Undefined
\* getCrossSigningKeyCache delegates to getCrossSigningKey.
getCrossSigningKeyCache(type, expectedPublicKey) ==
    getCrossSigningKey(type, expectedPublicKey)

\* storeCrossSigningKeyCache(type, key)
storeCrossSigningKeyCache(type, key) ==
    /\ running
    /\ privateKeys' = MapSet(privateKeys, type, key)
    /\ lastKey' = [lastKey EXCEPT ![type] = key]
    /\ lastSave' = << >>
    /\ UNCHANGED << existingValues, adapterVars, observerVars, replayVars, running,
                    ssssKeys, lastAdded, captureVars, reads, isolationVars >>

\* The objects handed to saveCrossSigningKeys, as their Object.entries():
\* <<type, key>> pairs with distinct types.
KeysByType ==
    { e \in UNION { [1..n -> CrossTypes \X Keys] : n \in 0..Cardinality(CrossTypes) } :
        \A i, j \in 1..Len(e) : i /= j => e[i][1] /= e[j][1] }

\* The for-of loop of saveCrossSigningKeys: one Map.set per entry, no await.
\* Faulty variant: only the first entry is written before the function yields.
SetAllFirstOnly(m, entries) ==
    IF entries = << >> THEN m ELSE MapSet(m, entries[1][1], entries[1][2])
RECURSIVE SetAll(_, _)
SetAll(m, entries) ==
    IF entries = << >>
    THEN m
    ELSE SetAll(MapSet(m, entries[1][1], entries[1][2]), Tail(entries))

\* saveCrossSigningKeys(privateKeys)
saveCrossSigningKeys(entries) ==
    /\ running
    /\ privateKeys' = SetAll(privateKeys, entries)
    /\ lastKey' = [t \in CrossTypes |->
                      IF \E i \in 1..Len(entries) : entries[i][1] = t
                      THEN entries[CHOOSE i \in 1..Len(entries) : entries[i][1] = t][2]
                      ELSE lastKey[t]]
    /\ lastSave' = entries
    /\ UNCHANGED << existingValues, adapterVars, observerVars, replayVars, running,
                    ssssKeys, lastAdded, captureVars, reads, isolationVars >>

\* --------------------------------------------------- SSSSCryptoCallbacks
\* What getSecretStorageKey returns when no candidate is held: nothing.
NoResult == << >>
\* The descriptors handed to getSecretStorageKey, as Object.keys(keys).
Descriptors ==
    { d \in UNION { [1..n -> KeyIds] : n \in 0..Cardinality(KeyIds) } :
        \A i, j \in 1..Len(d) : i /= j => d[i] /= d[j] }

\* The for-of loop of getSecretStorageKey from candidate i on.
RECURSIVE getSecretStorageKeyFrom(_, _)
getSecretStorageKeyFrom(keys, i) ==
    IF i > Len(keys)
    THEN NoResult
    ELSE LET privateKey == MapGet(ssssKeys, keys[i]) IN
         IF Truthy(privateKey)
         THEN <<keys[i], privateKey>>
         ELSE getSecretStorageKeyFrom(keys, i + 1)

\* Faulty variant: the last held candidate wins.
RECURSIVE getSecretStorageKeyLastFrom(_, _)
getSecretStorageKeyLastFrom(keys, i) ==
    IF i < 1
    THEN NoResult
    ELSE LET privateKey == MapGet(ssssKeys, keys[i]) IN
         IF Truthy(privateKey)
         THEN <<keys[i], privateKey>>
         ELSE getSecretStorageKeyLastFrom(keys, i - 1)
getSecretStorageKeyLast(keys, name) == getSecretStorageKeyLastFrom(keys, Len(keys))
\* getSecretStorageKey({ keys }, name)
getSecretStorageKey(keys, name) == getSecretStorageKeyFrom(keys, 1)

\* Faulty variant: the cache is replaced by one holding the new key only.
addPrivateKeyReplace(keyId, privKey) ==
    /\ running
    /\ ssssKeys' = MapSet(NewMap, keyId, privKey)
    /\ lastAdded' = [lastAdded EXCEPT ![keyId] = privKey]
    /\ UNCHANGED << existingValues, adapterVars, observerVars, replayVars, running,
                    privateKeys, lastKey, lastSave, captureVars, reads, isolationVars >>
\* addPrivateKey(keyId, privKey)
addPrivateKey(keyId, privKey) ==
    /\ running
    /\ ssssKeys' = MapSet(ssssKeys, keyId, privKey)
    /\ lastAdded' = [lastAdded EXCEPT ![keyId] = privKey]
    /\ UNCHANGED << existingValues, adapterVars, observerVars, replayVars, running,
                    privateKeys, lastKey, lastSave, captureVars, reads, isolationVars >>

\* ------------------------------------------- separately constructed builders
\* Two builders, each made by its own call of the constructor. Their Maps are
\* objects on a heap, named by their index; a builder holds references.
Builders == { "b1", "b2" }
IsolationTypes == { "m.foo" }
IsolationContents == { 1 }
IsolationCrossTypes == { "master" }
IsolationKeys == { 1 }
IsolationKeyIds == { "k1" }

\* Faulty variant: the Maps are module-level objects all instances share.
NewMapRefShared(h, k) == k
\* new Map(): the k-th object allocated by a constructor call is fresh.
NewMapRef(h, k) == Len(h) + k

\* new EncryptionSetupBuilder(accountData): the adapter's _values, the
\* cross-signing privateKeys and the secret-storage _privateKeys are three new
\* Maps; the capture fields are null. accountData is the caller's object.
EncryptionSetupBuilder(b) ==
    /\ running
    /\ b \notin DOMAIN builders
    /\ builders' = builders @@ (b :> [values |-> NewMapRef(heap, 1),
                                      privateKeys |-> NewMapRef(heap, 2),
                                      ssssKeys |-> NewMapRef(heap, 3)])
    /\ heap' = heap \o << NewMap, NewMap, NewMap >>
    /\ UNCHANGED << existingValues, adapterVars, observerVars, replayVars, running,
                    keyVars, captureVars, reads, bops, bapplies >>

\* setAccountData on builder b: Map.set on its adapter's Map, and the
\* notification is queued as a microtask.
setAccountDataOf(b, type, content) ==
    /\ running
    /\ b \in DOMAIN builders
    /\ Len(microtasks) < MaxWrites
    /\ heap' = [heap EXCEPT ![builders[b].values] = MapSet(@, type, content)]
    /\ microtasks' = ThenQueue(microtasks, [adapter |-> b, type |-> type, content |-> content])
    /\ UNCHANGED << existingValues, values, writeLog, acks, observerVars, replayVars,
                    running, keyVars, captureVars, reads, builders, bops, bapplies >>

\* The queued callback of a builder's adapter runs: no listener has been
\* registered on these adapters, so emit() calls nothing.
RunMicrotaskOf ==
    /\ ~running
    /\ microtasks /= << >>
    /\ microtasks' = Tail(microtasks)
    /\ UNCHANGED << existingValues, values, writeLog, acks, observerVars, replayVars,
                    running, keyVars, captureVars, reads, isolationVars >>

\* storeCrossSigningKeyCache on builder b's crossSigningCallbacks.
storeCrossSigningKeyCacheOf(b, type, key) ==
    /\ running
    /\ b \in DOMAIN builders
    /\ heap' = [heap EXCEPT ![builders[b].privateKeys] = MapSet(@, type, key)]
    /\ UNCHANGED << existingValues, adapterVars, observerVars, replayVars, running,
                    keyVars, captureVars, reads, builders, bops, bapplies >>

\* addPrivateKey on builder b's ssssCryptoCallbacks.
addPrivateKeyOf(b, keyId, privKey) ==
    /\ running
    /\ b \in DOMAIN builders
    /\ heap' = [heap EXCEPT ![builders[b].ssssKeys] = MapSet(@, keyId, privKey)]
    /\ UNCHANGED << existingValues, adapterVars, observerVars, replayVars, running,
                    keyVars, captureVars, reads, builders, bops, bapplies >>

\* The operations builder b has built.
OpsOf(b) == { o \in 1..Len(bops) : bops[o].builder = b }

\* buildOperation on builder b: the operation holds b's adapter Map.
buildOperationOf(b) ==
    /\ running
    /\ b \in DOMAIN builders
    /\ Cardinality(OpsOf(b)) < MaxOps
    /\ bops' = Append(bops, [builder |-> b,
                             op |-> EncryptionSetupOperation(builders[b].values, NullValue,
                                                             NullValue, NullValue)])
    /\ UNCHANGED << existingValues, adapterVars, observerVars, replayVars, running,
                    keyVars, captureVars, reads, heap, builders, bapplies >>

\* apply() of operation o, up to its first await.
applyOf(o) ==
    /\ running
    /\ o \in 1..Len(bops)
    /\ Len(bapplies) < MaxApplies
    /\ bapplies' = Append(bapplies,
                          Advance([op |-> o, pos |-> FirstPos(o), status |-> "awaiting",
                                   calls |-> << >>,
                                   after |-> { k \in 1..Len(bapplies) :
                                                 bapplies[k].status /= "awaiting" }],
                                  heap[bops[o].op.accountData]))
    /\ UNCHANGED << existingValues, adapterVars, observerVars, replayVars, running,
                    keyVars, captureVars, reads, heap, builders, bops >>

\* The network client settles the call invocation k is awaiting.
NetworkCompleteOf(k, ok) ==
    /\ ~running
    /\ microtasks = << >>
    /\ k \in 1..Len(bapplies)
    /\ bapplies[k].status = "awaiting"
    /\ LET a == bapplies[k]
           call == a.calls[Len(a.calls)]
       IN /\ bapplies' = [bapplies EXCEPT ![k] = Settle(a, ok, heap[bops[a.op].op.accountData])]
          /\ remote' = IF ok THEN [remote EXCEPT ![call.type] = call.content] ELSE remote
    /\ UNCHANGED << existingValues, adapterVars, observerVars, running,
                    ops, applies, pendingAtBuild, keysAtBuild,
                    keyVars, captureVars, reads, heap, builders, bops >>

\* ----------------------------------------------------------------- Next
Next ==
    \/ BeginStep
    \/ EndStep
    \/ \E o \in Observers : Subscribe(o)
    \/ \E t \in Types, c \in Contents : setAccountData(t, c)
    \/ RunMicrotask
    \/ buildOperation
    \/ \E op \in 1..MaxOps : apply(op)
    \/ \E k \in 1..MaxApplies, ok \in BOOLEAN : NetworkComplete(k, ok)
    \/ \E t \in CrossTypes, k \in Keys : storeCrossSigningKeyCache(t, k)
    \/ \E e \in KeysByType : saveCrossSigningKeys(e)
    \/ \E id \in KeyIds, k \in Keys : addPrivateKey(id, k)
    \/ \E t \in Types : getAccountDataFromServer(t)
    \/ \E f \in CaptureFields, v \in CaptureObjects \cup {NullValue} : setCapture(f, v)
    \/ \E b \in Builders : EncryptionSetupBuilder(b)
    \/ \E b \in Builders, t \in Types, c \in Contents : setAccountDataOf(b, t, c)
    \/ RunMicrotaskOf
    \/ \E b \in Builders, t \in CrossTypes, k \in Keys : storeCrossSigningKeyCacheOf(b, t, k)
    \/ \E b \in Builders, id \in KeyIds, k \in Keys : addPrivateKeyOf(b, id, k)
    \/ \E b \in Builders : buildOperationOf(b)
    \/ \E o \in 1..(2 * MaxOps) : applyOf(o)
    \/ \E k \in 1..MaxApplies, ok \in BOOLEAN : NetworkCompleteOf(k, ok)

\* The whole system; SpecOverlay and SpecReplay below are its two parts, which
\* share no state but the pending Map and the event loop.
Spec == Init /\ [][Next]_vars

\* The account-data overlay and its observers alone.
NextOverlay ==
    \/ BeginStep
    \/ EndStep
    \/ \E o \in Observers : Subscribe(o)
    \/ \E t \in Types, c \in Contents : setAccountData(t, c)
    \/ RunMicrotask

SpecOverlay == Init /\ [][NextOverlay]_vars

\* The builder, its operations and their replay, with no observer registered.
NextReplay ==
    \/ BeginStep
    \/ EndStep
    \/ \E t \in Types, c \in Contents : setAccountData(t, c)
    \/ RunMicrotask
    \/ buildOperation
    \/ \E op \in 1..MaxOps : apply(op)
    \/ \E k \in 1..MaxApplies, ok \in BOOLEAN : NetworkComplete(k, ok)

SpecReplay == Init /\ [][NextReplay]_vars

\* The cross-signing private-key cache of the builder on its own.
NextCrossSigning ==
    \/ BeginStep
    \/ EndStep
    \/ \E t \in CrossTypes, k \in Keys : storeCrossSigningKeyCache(t, k)
    \/ \E e \in KeysByType : saveCrossSigningKeys(e)

SpecCrossSigning == Init /\ [][NextCrossSigning]_vars

\* The secret-storage private-key cache of the builder on its own.
NextSecretStorage ==
    \/ BeginStep
    \/ EndStep
    \/ \E id \in KeyIds, k \in Keys : addPrivateKey(id, k)

SpecSecretStorage == Init /\ [][NextSecretStorage]_vars

\* The adapter's reads against its writes: a type that may have an existing
\* entry and one that has none.
ReadTypes == { "m.foo", "m.bar" }
NextRead ==
    \/ BeginStep
    \/ EndStep
    \/ \E t \in ReadTypes, c \in Contents : setAccountData(t, c)
    \/ RunMicrotask
    \/ \E t \in ReadTypes : getAccountDataFromServer(t)

SpecRead == Init /\ [][NextRead]_vars

\* The builder's cross-signing cache against what buildOperation captures;
\* two bulk saves stand for the others.
BuildSaves ==
    { << <<"master", 1>>, <<"self_signing", 2>> >>,
      << <<"user_signing", 2>>, <<"master", 2>> >> }
NextBuild ==
    \/ BeginStep
    \/ EndStep
    \/ \E t \in CrossTypes, k \in Keys : storeCrossSigningKeyCache(t, k)
    \/ \E e \in BuildSaves : saveCrossSigningKeys(e)
    \/ buildOperation

SpecBuild == Init /\ [][NextBuild]_vars

\* The replay of an operation built with the capture fields set.
NextApply ==
    \/ BeginStep
    \/ EndStep
    \/ \E t \in ReadTypes : setAccountData(t, 1)
    \/ RunMicrotask
    \/ \E f \in CaptureFields, v \in CaptureObjects : setCapture(f, v)
    \/ buildOperation
    \/ \E op \in 1..MaxOps : apply(op)
    \/ \E k \in 1..MaxApplies, ok \in BOOLEAN : NetworkComplete(k, ok)

SpecApply == Init /\ [][NextApply]_vars

\* Two builders side by side.
NextIsolation ==
    \/ BeginStep
    \/ EndStep
    \/ \E b \in Builders : EncryptionSetupBuilder(b)
    \/ \E b \in Builders, t \in IsolationTypes, c \in IsolationContents :
           setAccountDataOf(b, t, c)
    \/ RunMicrotaskOf
    \/ \E b \in Builders, t \in IsolationCrossTypes, k \in IsolationKeys :
           storeCrossSigningKeyCacheOf(b, t, k)
    \/ \E b \in Builders, id \in IsolationKeyIds, k \in IsolationKeys :
           addPrivateKeyOf(b, id, k)
    \/ \E b \in Builders : buildOperationOf(b)
    \/ \E o \in 1..(2 * MaxOps) : applyOf(o)
    \/ \E k \in 1..MaxApplies, ok \in BOOLEAN : NetworkCompleteOf(k, ok)

SpecIsolation == Init /\ [][NextIsolation]_vars

\* ============================================================ properties
\* Vocabulary of the properties below.
PairOf(e) == <<e.type, e.content>>
ToPairs(seq) == [i \in 1..Len(seq) |-> PairOf(seq[i])]
WriteIdx(t) == { i \in 1..Len(writeLog) : writeLog[i][1] = t }
Written(t) == WriteIdx(t) /= {}
LastWritten(t) == writeLog[CHOOSE i \in WriteIdx(t) : \A j \in WriteIdx(t) : j <= i][2]
CallPairs(a) == [j \in 1..Len(a.calls) |-> <<a.calls[j].type, a.calls[j].content>>]
CallTypes(a) == [j \in 1..Len(a.calls) |-> a.calls[j].type]
CallsFor(a, t) == { j \in 1..Len(a.calls) : a.calls[j].type = t }
InFlight(a) == { j \in 1..Len(a.calls) : a.calls[j].result = "pending" }
EntriesOf(a) == Deref(ops[a.op].accountData)

\* C1: snapshot independence. The account data an operation holds is, in
\* every later state, the pending entries as they were when buildOperation()
\* returned it, whatever the builder is made to do afterwards.
C1_SnapshotIndependence ==
    \A i \in 1..Len(ops) : Deref(ops[i].accountData) = pendingAtBuild[i]

\* C2: read-after-write. Once a type has been written, getAccountData(type)
\* is the content of the latest write to it, for every content value and
\* whether or not an existing entry was supplied, from the state right after
\* the write on (before its notification is delivered).
C2_ReadAfterWrite ==
    \A t \in Types : Written(t) => getAccountData(t) = LastWritten(t)

\* C3: a type that has never been written reads as the content of its
\* existing entry, or as null when it has none, whatever has been written to
\* the other types.
C3_ReadUnwritten ==
    \A t \in Types :
        ~Written(t) =>
            getAccountData(t) = IF HasExisting(t) THEN existingValues[t].content ELSE Null

C3_Witness ==
    \E t \in Types :
        /\ ~Written(t)
        /\ HasExisting(t)
        /\ Len(values) >= 2
        /\ getAccountData(t) = existingValues[t].content

\* C4: last write wins, without duplication. After two or more writes to a
\* type, getAccountData returns the content written last, and a completed
\* apply() of an operation built after them has made exactly one call for the
\* type, with that content.
C4_LastWriteWins ==
    \A t \in Types :
        Cardinality(WriteIdx(t)) >= 2 =>
            /\ getAccountData(t) = LastWritten(t)
            /\ \A k \in 1..Len(applies) :
                   ( /\ applies[k].status = "resolved"
                     /\ MapGet(pendingAtBuild[applies[k].op], t) = LastWritten(t) )
                   => /\ Cardinality(CallsFor(applies[k], t)) = 1
                      /\ \A j \in CallsFor(applies[k], t) :
                             applies[k].calls[j].content = LastWritten(t)

\* C5: replay order. A successfully completed apply() has called the network
\* client exactly once per entry captured when its operation was built, with
\* the captured content, in the order the types were first written, and has
\* made no other call.
C5_ReplayOrder ==
    \A k \in 1..Len(applies) :
        applies[k].status = "resolved" =>
            CallPairs(applies[k]) = pendingAtBuild[applies[k].op]

\* C6: sequential replay. An apply() invocation never has more than one call
\* in flight, and each call it has started after its first was started only
\* once the call before it had succeeded.
C6_SequentialReplay ==
    \A k \in 1..Len(applies) :
        /\ Cardinality(InFlight(applies[k])) <= 1
        /\ \A j \in 2..Len(applies[k].calls) : applies[k].calls[j - 1].result = "ok"

C6_Witness ==
    \E k \in 1..Len(applies) :
        /\ Len(applies[k].calls) >= 2
        /\ applies[k].calls[Len(applies[k].calls)].result = "pending"

\* C7: failure mid-replay. A failed call is the last call its apply()
\* invocation ever makes and the invocation has rejected; every call before
\* it succeeded and its type stays set on the server (with the content sent,
\* when no other invocation wrote there); no later entry is attempted.
C7_FailureMidReplay ==
    \A k \in 1..Len(applies) :
        \A j \in 1..Len(applies[k].calls) :
            applies[k].calls[j].result = "failed" =>
                /\ j = Len(applies[k].calls)
                /\ applies[k].status = "rejected"
                /\ \A i \in 1..(j - 1) :
                       /\ applies[k].calls[i].result = "ok"
                       /\ remote[applies[k].calls[i].type] /= Undefined
                       /\ Len(applies) = 1 =>
                              remote[applies[k].calls[i].type] = applies[k].calls[i].content

\* The scenario of the specification: the second of three entries fails.
C7_Witness ==
    \E k \in 1..Len(applies) :
        /\ applies[k].status = "rejected"
        /\ Len(applies[k].calls) = 2
        /\ Len(EntriesOf(applies[k])) = 3
        /\ Len(pendingAtBuild[applies[k].op]) = 3
        /\ remote[applies[k].calls[1].type] = applies[k].calls[1].content

C9_Inv ==
    /\ ToPairs(emitted) \o ToPairs(microtasks) = writeLog
    /\ \A o \in listeners :
           microtasks = << >> =>
               ToPairs(received[o]) = SubSeq(writeLog, subFrom[o] + 1, Len(writeLog))
C9_Step ==
    /\ running => (emitted' = emitted /\ received' = received)
    /\ (~running /\ running') => ToPairs(emitted) = writeLog
C9_DeferredNotification == []C9_Inv /\ [][C9_Step]_vars

\* An observer that subscribed after a write, before the step of the write
\* ended, has received that write's notification.
C9_Witness ==
    \E o \in listeners :
        /\ subAt[o] > subFrom[o]
        /\ Len(received[o]) >= 1
        /\ PairOf(received[o][1]) = writeLog[subFrom[o] + 1]

\* C10: notification order. What an observer has received is, at every
\* moment, a run of consecutive writes in write order, starting with the first
\* write not yet delivered when it subscribed.
C10_NotificationOrder ==
    \A o \in listeners :
        /\ subFrom[o] + Len(received[o]) <= Len(writeLog)
        /\ ToPairs(received[o]) =
               SubSeq(writeLog, subFrom[o] + 1, subFrom[o] + Len(received[o]))

\* Both observers have received two notifications, and one of them subscribed
\* when two writes of the running step were still undelivered.
C10_Witness ==
    /\ \A o \in Observers : o \in listeners /\ Len(received[o]) >= 2
    /\ \E o \in Observers : subAt[o] >= subFrom[o] + 2
    /\ writeLog[1] /= writeLog[2]

\* C11: cross-signing cache unification. For every type and every expected
\* public key, the cache-shape getter and the authoritative-shape getter both
\* yield the key written last for the type through either shape, and
\* undefined when none was written.
C11_CacheUnification ==
    \A t \in CrossTypes, p \in Pubkeys :
        /\ getCrossSigningKeyCache(t, p) = lastKey[t]
        /\ getCrossSigningKey(t, p) = lastKey[t]

\* A key stored through the cache shape over one saved through the other
\* shape, read with an expected public key that is not the key's.
C11_Witness ==
    \E t \in CrossTypes, u \in CrossTypes, p \in Pubkeys :
        /\ t /= u
        /\ lastSave = << >>
        /\ Len(privateKeys) >= 2
        /\ lastKey[t] /= Undefined
        /\ lastKey[u] /= Undefined
        /\ p /= lastKey[t]
        /\ getCrossSigningKey(t, p) = lastKey[t]

\* C12: saveAll atomicity. In the state saveCrossSigningKeys leaves behind,
\* the first state in which a getter can run, every entry of its argument
\* reads as saved through both getters: no partial bulk save is observable.
C12_SaveAllAtomic ==
    \A i \in 1..Len(lastSave), p \in Pubkeys :
        /\ getCrossSigningKey(lastSave[i][1], p) = lastSave[i][2]
        /\ getCrossSigningKeyCache(lastSave[i][1], p) = lastSave[i][2]

\* Right after a bulk save of all three types over earlier keys, with
\* different keys among them.
C12_Witness ==
    /\ Len(lastSave) = 3
    /\ lastSave[1][2] /= lastSave[3][2]
    /\ MapKeys(privateKeys) /= << lastSave[1][1], lastSave[2][1], lastSave[3][1] >>
    /\ \A i \in 1..3 : getCrossSigningKey(lastSave[i][1], 1) = lastSave[i][2]

\* C13: secret-storage resolution. For every descriptor and secret name,
\* getSecretStorageKey returns the first candidate, in the descriptor's order,
\* that has had a key added, with the key added last for it, and nothing when
\* no candidate has one; the secret name plays no part.
HeldAt(d) == { i \in 1..Len(d) : lastAdded[d[i]] /= Undefined }
FirstHeld(d) == CHOOSE i \in HeldAt(d) : \A j \in HeldAt(d) : i <= j
C13_Resolution ==
    \A d \in Descriptors, n \in SecretNames :
        getSecretStorageKey(d, n) =
            IF HeldAt(d) = {} THEN NoResult ELSE <<d[FirstHeld(d)], lastAdded[d[FirstHeld(d)]]>>

\* The specification's example: only the second candidate is held; and a
\* descriptor none of whose candidates is held resolves to nothing.
C13_Witness ==
    /\ MapKeys(ssssKeys) = << "k2" >>
    /\ getSecretStorageKey(<< "k1", "k2" >>, "m.cross_signing.master") = << "k2", lastAdded["k2"] >>
    /\ getSecretStorageKey(<< "k1", "k3" >>, "m.cross_signing.master") = NoResult

\* C18: secret-storage keys are additive. No step takes a key id out of the
\* cache, and once a key was added for an id the cache holds the key added
\* last for it and getSecretStorageKey on a descriptor that lists only that
\* id never comes back empty.
C18_Inv ==
    \A id \in KeyIds, n \in SecretNames :
        lastAdded[id] /= Undefined =>
            /\ MapGet(ssssKeys, id) = lastAdded[id]
            /\ getSecretStorageKey(<< id >>, n) /= NoResult
C18_Step == \A id \in KeyIds : MapHas(ssssKeys, id) => MapHas(ssssKeys', id)
C18_Additive == []C18_Inv /\ [][C18_Step]_vars

\* Keys for all three ids were added, the first-added id still resolves.
C18_Witness ==
    /\ Len(ssssKeys) = 3
    /\ getSecretStorageKey(<< MapKeys(ssssKeys)[1] >>, "m.megolm_backup.v1")
         = << MapKeys(ssssKeys)[1], lastAdded[MapKeys(ssssKeys)[1]] >>

\* C14: getAccountDataFromServer. The value its promise holds is, in every
\* later state, what getAccountData returned for the type when the call was
\* made: the content written last before the call if truthy, else the
\* existing content, else null; and the call reaches no network client: it
\* starts no call of apply() and leaves the server's account data alone.
ReadAt(t, n) ==
    LET w == { i \in 1..n : writeLog[i][1] = t }
        last == CHOOSE i \in w : \A j \in w : j <= i
    IN IF w /= {} /\ Truthy(writeLog[last][2])
       THEN writeLog[last][2]
       ELSE IF HasExisting(t) THEN existingValues[t].content ELSE Null
C14_Inv ==
    \A i \in 1..Len(reads) : reads[i].value = ReadAt(reads[i].type, reads[i].at)
C14_Step == reads' /= reads => (applies' = applies /\ remote' = remote)
C14_ReadFromServer == []C14_Inv /\ [][C14_Step]_vars

\* A read of a written type made before a later write to it: the promise
\* holds the earlier content, getAccountData now returns the later one.
C14_Witness ==
    \E i \in 1..Len(reads) :
        /\ reads[i].at >= 1
        /\ reads[i].at < Len(writeLog)
        /\ reads[i].value = writeLog[reads[i].at][2]
        /\ writeLog[reads[i].at][1] = reads[i].type
        /\ getAccountData(reads[i].type) /= reads[i].value

\* C17 as stated: the promise setAccountData returns completes once the
\* notification has been scheduled, so that the caller waiting on it can be
\* resumed before the notification is delivered.
C17_AckOnceScheduled ==
    \A i \in 1..Len(writeLog) : acks[i] = "resolved"

\* C17, amended: setAccountData returns its promise once the notification has
\* been scheduled, but the promise is still pending then; it is resolved
\* exactly when the notification of its write has been delivered, so a caller
\* waiting on it is never resumed before the observers received it.
C17_AckAfterDelivery ==
    /\ Len(acks) = Len(writeLog)
    /\ \A i \in 1..Len(acks) :
           /\ acks[i] = "resolved" <=> i <= Len(emitted)
           /\ acks[i] = "resolved" =>
                  /\ PairOf(emitted[i]) = writeLog[i]
                  /\ \A o \in listeners :
                         subFrom[o] < i => PairOf(received[o][i - subFrom[o]]) = writeLog[i]

\* The step of a write has ended, an observer is subscribed, the notification
\* is not delivered yet, and the promise is still pending.
C17_Witness ==
    /\ ~running
    /\ listeners /= {}
    /\ \E i \in 1..Len(acks) :
           /\ acks[i] = "pending"
           /\ i = Len(emitted) + 1
           /\ i >= 2
           /\ acks[i - 1] = "resolved"

\* C20: each notification carries the content of its own write. When the
\* notification of a write is delivered while a later write to the same type,
\* made in the same step, is still queued, the event delivered has the
\* content of the earlier write and getAccountData already returns the
\* content written last.
C20_DeliveryContent ==
    \A i \in 1..Len(emitted) :
        ( /\ ~running
          /\ i = Len(emitted)
          /\ i < Len(writeLog)
          /\ writeLog[i + 1][1] = writeLog[i][1] )
        => /\ PairOf(emitted[i]) = writeLog[i]
           /\ \A o \in listeners :
                  subFrom[o] < i => PairOf(received[o][Len(received[o])]) = writeLog[i]
           /\ getAccountData(writeLog[i][1]) = LastWritten(writeLog[i][1])

\* C15 as stated: every cross-signing key written through the cache before
\* buildOperation() is held, for its type, in the cross-signing keys of the
\* operation returned.
C15_KeysCaptured ==
    \A i \in 1..Len(ops), t \in CrossTypes :
        keysAtBuild[i][t] /= Undefined =>
            MapGet(ops[i].crossSigningKeys.entries, t) = keysAtBuild[i][t]

\* C15, amended: the cross-signing keys of the operation are the value of the
\* builder's _crossSigningKeys field, which the cache never writes: it is
\* null whatever was stored or saved before buildOperation(), and the
\* operation holds no private key of any type.
C15_CaptureIsBuilderField ==
    \A i \in 1..Len(ops) :
        /\ ops[i].crossSigningKeys = crossSigningKeys
        /\ ops[i].crossSigningKeys.kind = "null"
        /\ \A t \in CrossTypes : MapGet(ops[i].crossSigningKeys.entries, t) = Undefined

\* An operation built when keys of all three types were in the cache, written
\* through both shapes.
C15_Witness ==
    \E i \in 1..Len(ops) :
        /\ \A t \in CrossTypes : keysAtBuild[i][t] /= Undefined
        /\ \E t \in CrossTypes : getCrossSigningKey(t, 1) /= keysAtBuild[i][t]
        /\ ops[i].crossSigningKeys = NullValue

\* C16: apply() only writes account data. Every call an invocation of apply()
\* has made on the network client is a setAccountData call for a type of the
\* pending entries its operation holds, with a content written for that type,
\* whatever the three captures of the operation are; and a step of apply()
\* changes neither an operation nor the builder's pending values, private-key
\* caches and capture fields.
C16_Inv ==
    \A k \in 1..Len(applies) :
        \A j \in 1..Len(applies[k].calls) :
            /\ applies[k].calls[j].method = "setAccountData"
            /\ MapHas(EntriesOf(applies[k]), applies[k].calls[j].type)
            /\ \E w \in 1..Len(writeLog) :
                   writeLog[w] = <<applies[k].calls[j].type, applies[k].calls[j].content>>
C16_Step ==
    applies' /= applies =>
        /\ ops' = ops
        /\ values' = values
        /\ existingValues' = existingValues
        /\ privateKeys' = privateKeys
        /\ ssssKeys' = ssssKeys
        /\ captureVars' = captureVars
RefsOf(b) == { builders[b].values, builders[b].privateKeys, builders[b].ssssKeys }
StateOf(b) ==
    [values |-> heap[builders[b].values],
     privateKeys |-> heap[builders[b].privateKeys],
     ssssKeys |-> heap[builders[b].ssssKeys],
     ops |-> [o \in OpsOf(b) |-> heap[bops[o].op.accountData]]]
OperationOn(b) ==
    \/ EncryptionSetupBuilder(b)
    \/ \E t \in IsolationTypes, c \in IsolationContents : setAccountDataOf(b, t, c)
    \/ \E t \in IsolationCrossTypes, k \in IsolationKeys : storeCrossSigningKeyCacheOf(b, t, k)
    \/ \E id \in IsolationKeyIds, k \in IsolationKeys : addPrivateKeyOf(b, id, k)
    \/ buildOperationOf(b)
    \/ \E o \in OpsOf(b) : applyOf(o)
    \/ \E k \in 1..Len(bapplies), ok \in BOOLEAN :
           bops[bapplies[k].op].builder = b /\ NetworkCompleteOf(k, ok)
C19_Inv ==
    \A b1 \in DOMAIN builders, b2 \in DOMAIN builders :
        b1 /= b2 => RefsOf(b1) \cap RefsOf(b2) = {}
C19_Step ==
    \A b \in Builders :
        OperationOn(b) =>
            \A other \in DOMAIN builders : other /= b => StateOf(other)' = StateOf(other)
C19_BuilderIsolation == []C19_Inv /\ [][C19_Step]_vars

\* Both builders were used: the first has a pending value and an operation
\* whose apply() completed, the second a key in each cache and nothing pending.
C19_Witness ==
    /\ DOMAIN builders = Builders
    /\ StateOf("b1").values /= NewMap
    /\ StateOf("b2").values = NewMap
    /\ StateOf("b1").privateKeys = NewMap
    /\ StateOf("b2").privateKeys /= NewMap
    /\ StateOf("b2").ssssKeys /= NewMap
    /\ OpsOf("b1") /= {}
    /\ OpsOf("b2") /= {}
    /\ \E k \in 1..Len(bapplies) :
           /\ bops[bapplies[k].op].builder = "b1"
           /\ bapplies[k].status = "resolved"
           /\ Len(bapplies[k].calls) >= 1
====
